---------------------------- MODULE Spec2Model ----------------------------
(***************************************************************************)
(* A model of www/orm.py (the metaclass-driven ORM) and www/Models.py.     *)
(*                                                                         *)
(* SQL strings are modelled as texts: the sequence of the string's tokens, *)
(* a token being a word or a name, a single space, one punctuation         *)
(* character, the portable placeholder "?", the driver's placeholder "%s", *)
(* or a value that % wrote into the string.  Two strings built from words, *)
(* names and punctuation are equal exactly when their texts are.           *)
(* Str(text) is the Python string a text stands for.  The string syntax    *)
(* here cannot hold the backquote character: in every string below the     *)
(* caret ^ stands for the backquote that quotes SQL identifiers.           *)
(***************************************************************************)
EXTENDS Integers, Sequences, FiniteSets, TLC

VARIABLES
    declared,   \* the last class statement run through ModelMetaclass
    pool,       \* the module global __pool
    call,       \* the call of select / execute the last step made, and what it did
    klass,      \* the attributes of the model type the instance belongs to
    inst,       \* the Model instance under observation (a dict)
    clock,      \* how many times a callable default has been invoked
    mcall       \* the Model-level call (find, findAll, save, ...) the last step made

vars == <<declared, pool, call, klass, inst, clock, mcall>>

-----------------------------------------------------------------------------
(* Bounds *)

MaxFields == 2      \* non-key fields of a model type in the Model-level runs
MaxRows == 3        \* rows of the table
MaxLimit == 2       \* limit / offset / count values tried
MaxClock == 2       \* invocations of callable defaults

-----------------------------------------------------------------------------
(* Python values *)

None == [t |-> "none", s |-> "", n |-> 0]
PStr(x) == [t |-> "str", s |-> x, n |-> 0]
PInt(k) == [t |-> "int", s |-> "", n |-> k]
PBool(b) == [t |-> "bool", s |-> "", n |-> IF b THEN 1 ELSE 0]
PFunc(f) == [t |-> "func", s |-> f, n |-> 0]

Digit == <<"0", "1", "2", "3", "4", "5", "6", "7", "8", "9">>

RECURSIVE IntStr(_)
IntStr(k) ==
    IF k < 0 THEN "-" \o IntStr(0 - k)
    ELSE IF k < 10 THEN Digit[k + 1]
    ELSE IntStr(k \div 10) \o Digit[(k % 10) + 1]

\* str(v)
StrOf(v) ==
    CASE v.t = "none" -> "None"
      [] v.t = "str" -> v.s
      [] v.t = "int" -> IntStr(v.n)
      [] v.t = "bool" -> (IF v.n = 1 THEN "True" ELSE "False")
      [] OTHER -> "<function " \o v.s \o ">"

\* repr(v)
ReprOf(v) == IF v.t = "str" THEN "'" \o v.s \o "'" ELSE StrOf(v)

RECURSIVE JoinStr(_, _)
JoinStr(sep, ss) ==
    IF ss = <<>> THEN ""
    ELSE IF Len(ss) = 1 THEN ss[1]
    ELSE ss[1] \o sep \o JoinStr(sep, Tail(ss))

\* repr of a list
ReprList(items) ==
    "[" \o JoinStr(", ", [i \in DOMAIN items |-> ReprOf(items[i])]) \o "]"

-----------------------------------------------------------------------------
(* Texts *)

RECURSIVE Str(_)
Str(text) == IF text = <<>> THEN "" ELSE text[1] \o Str(Tail(text))

RECURSIVE JoinText(_, _)
JoinText(sep, texts) ==
    IF texts = <<>> THEN <<>>
    ELSE IF Len(texts) = 1 THEN texts[1]
    ELSE texts[1] \o sep \o JoinText(sep, Tail(texts))

RECURSIVE Count(_, _)
Count(text, piece) ==
    IF text = <<>> THEN 0
    ELSE (IF text[1] = piece THEN 1 ELSE 0) + Count(Tail(text), piece)

\* sql.replace('?', '%s')
Translate(sql) == [i \in DOMAIN sql |-> IF sql[i] = "?" THEN "%s" ELSE sql[i]]

\* The k-th "%s" of fmt replaced by vals[k], for a fmt with Len(vals) of them.
RECURSIVE Fill(_, _)
Fill(fmt, vals) ==
    IF fmt = <<>> THEN <<>>
    ELSE IF fmt[1] = "%s" THEN <<vals[1]>> \o Fill(Tail(fmt), Tail(vals))
    ELSE <<fmt[1]>> \o Fill(Tail(fmt), vals)

\* fmt % args, for args a tuple or a list (a list is ONE value to %, and being
\* a mapping-like object it also silences the "not all arguments converted"
\* check).
PyFormat(fmt, args) ==
    LET k == Count(fmt, "%s") IN
    IF args.kind = "tuple"
    THEN IF Len(args.items) = k
         THEN [ok |-> TRUE,
               text |-> Fill(fmt, [i \in DOMAIN args.items |-> StrOf(args.items[i])])]
         ELSE [ok |-> FALSE, text |-> <<>>]
    ELSE IF k = 0 THEN [ok |-> TRUE, text |-> fmt]
         ELSE IF k = 1 THEN [ok |-> TRUE, text |-> Fill(fmt, <<ReprList(args.items)>>)]
         ELSE [ok |-> FALSE, text |-> <<>>]

-----------------------------------------------------------------------------
(* Field descriptors and class namespaces *)

\* Field.__init__: name, column_type, primary_key, default.  cls is the
\* object's class; a str object carries its text in str.
Field(cls, name, column_type, primary_key, default) ==
    [cls |-> cls, str |-> "", name |-> name, column_type |-> column_type,
     primary_key |-> primary_key, default |-> default]

StringField(primary_key, default, ddl) ==
    Field("StringField", None, ddl, primary_key, default)

BooleanField == Field("BooleanField", None, "boolean", FALSE, PBool(FALSE))

FloatField(default) == Field("FloatField", None, "real", FALSE, default)

\* A str object, as the keys of a class namespace and the value of __table__.
StrObj(x) ==
    [cls |-> "str", str |-> x, name |-> None, column_type |-> "",
     primary_key |-> FALSE, default |-> None]

FieldClasses ==
    {"Field", "StringField", "BooleanField", "IntegerField", "FloatField", "TextFiedl"}

\* isinstance(o, Field)
IsField(o) == o.cls \in FieldClasses

\* '%s' % o : Field.__str__ for a field, the text itself for a str.
ObjStr(o) ==
    IF o.cls = "str" THEN o.str
    ELSE "<" \o o.cls \o ", " \o o.column_type \o ":" \o StrOf(o.name) \o ">"

\* The fields User declares (Models.py), by attribute name.
UserField(k) ==
    CASE k = "id" -> StringField(TRUE, PFunc("next_id"), "varchar(50)")
      [] k = "email" -> StringField(FALSE, None, "varchar(50)")
      [] k = "admin" -> BooleanField
      [] OTHER -> FloatField(PFunc("time"))

\* create_args_string(num): '?, ?, ..., ?'
RECURSIVE create_args_string(_)
create_args_string(num) ==
    IF num <= 0 THEN <<>>
    ELSE IF num = 1 THEN <<"?">>
    ELSE <<"?", ",", " ">> \o create_args_string(num - 1)

-----------------------------------------------------------------------------
(* ModelMetaclass.__new__ *)

\* attrs.get('__table__', None) or name
RECURSIVE AttrsGet(_, _)
AttrsGet(attrs, key) ==
    IF attrs = <<>> THEN None
    ELSE IF attrs[1].k.cls = "str" /\ attrs[1].k.str = key THEN attrs[1].v
    ELSE AttrsGet(Tail(attrs), key)

TableName(name, attrs) ==
    LET t == AttrsGet(attrs, "__table__") IN
    IF t = None \/ (t.cls = "str" /\ t.str = "") THEN name ELSE t.str

\* The loop over attrs.items(): acc holds mappings (the pairs kept, in
\* order), fields (the non-key columns), primaryKey (None until one is
\* found) and the error raised, if any.
RECURSIVE ScanAttrs(_, _)
ScanAttrs(attrs, acc) ==
    IF attrs = <<>> \/ acc.error # "" THEN acc
    ELSE LET k == attrs[1].k
             v == attrs[1].v
         IN IF IsField(k)
            THEN LET m == Append(acc.mappings, attrs[1]) IN
                 IF v.primary_key
                 THEN IF acc.primaryKey # None
                      THEN [acc EXCEPT !.error =
                                "Duplicate primary key for field: " \o ObjStr(k)]
                      ELSE ScanAttrs(Tail(attrs),
                                     [acc EXCEPT !.mappings = m, !.primaryKey = k])
                 ELSE ScanAttrs(Tail(attrs),
                                [acc EXCEPT !.mappings = m,
                                            !.fields = Append(acc.fields, k)])
            ELSE ScanAttrs(Tail(attrs), acc)

\* mappings.get(f).name or f
ColumnName(mappings, f) ==
    LET hit == {i \in DOMAIN mappings : mappings[i].k = f}
        fld == mappings[CHOOSE i \in hit : TRUE].v
    IN IF fld.name = None \/ fld.name = PStr("") THEN ObjStr(f) ELSE fld.name.s

\* '^%s^' % c
Quoted(c) == <<"^", c, "^">>

\* Lines 186-195: the attributes attached to the class, from the scan's result.
BuildAttrs(tableName, primaryKey, fields, mappings) ==
    LET escaped_fields == [i \in DOMAIN fields |-> Quoted(ObjStr(fields[i]))]
        fields_str == JoinText(<<",", " ">>, escaped_fields)
        pk == ObjStr(primaryKey)
        sets == [i \in DOMAIN fields |->
                    Quoted(ColumnName(mappings, fields[i])) \o <<"=", "?">>]
    IN [table |-> tableName,
        primary_key |-> pk,
        fields |-> [i \in DOMAIN fields |-> ObjStr(fields[i])],
        mappings |-> [i \in DOMAIN mappings |->
                         [k |-> ObjStr(mappings[i].k), v |-> mappings[i].v]],
        select |-> <<"select", " ">> \o Quoted(pk) \o <<",", " ", "^">> \o fields_str
                     \o <<"^", " ", "from", " ">> \o Quoted(tableName),
        insert |-> <<"insert", " ", "into", " ">> \o Quoted(tableName)
                     \o <<" ", "(", "^">> \o fields_str \o <<"^", ",", " ">>
                     \o Quoted(pk) \o <<")", " ", "value", " ", "(">>
                     \o create_args_string(Len(escaped_fields) + 1) \o <<")">>,
        update |-> <<"update", " ">> \o Quoted(tableName) \o <<" ", "set", " ">>
                     \o JoinText(<<",", " ">>, sets)
                     \o <<" ", "where", " ">> \o Quoted(pk) \o <<"=", "?">>,
        delete |-> <<"delete", " ", "from", " ">> \o Quoted(tableName)
                     \o <<" ", "where", " ">> \o Quoted(pk) \o <<"=", "?">>]

NoAttrs ==
    [table |-> "", primary_key |-> "", fields |-> <<>>, mappings |-> <<>>,
     select |-> <<>>, insert |-> <<>>, update |-> <<>>, delete |-> <<>>]

\* ModelMetaclass.__new__(cls, name, bases, attrs): the class created, or the
\* exception raised.
ModelMetaclass_new(name, attrs) ==
    IF name = "Model"
    THEN [created |-> TRUE, error |-> "", mapped |-> FALSE, meta |-> NoAttrs]
    ELSE LET scan == ScanAttrs(attrs, [mappings |-> <<>>, fields |-> <<>>,
                                        primaryKey |-> None, error |-> ""])
         IN IF scan.error # ""
            THEN [created |-> FALSE, error |-> scan.error, mapped |-> FALSE,
                  meta |-> NoAttrs]
            ELSE IF scan.primaryKey = None
            THEN [created |-> FALSE, error |-> "Primary key not found.",
                  mapped |-> FALSE, meta |-> NoAttrs]
            ELSE [created |-> TRUE, error |-> "", mapped |-> TRUE,
                  meta |-> BuildAttrs(TableName(name, attrs), scan.primaryKey,
                                      scan.fields, scan.mappings)]

-----------------------------------------------------------------------------
(* Idle values of the variables *)

NoDecl ==
    [done |-> FALSE, name |-> "", attrs |-> <<>>, created |-> FALSE,
     error |-> "", mapped |-> FALSE, meta |-> NoAttrs]

NoPool == [init |-> FALSE, acquire |-> "method", maxsize |-> 0, free |-> 0]

NoArgs == [kind |-> "tuple", items |-> <<>>]

NoCall ==
    [op |-> "", sql |-> <<>>, args |-> NoArgs, autocommit |-> TRUE, size |-> 0,
     fault |-> {}, error |-> "", acquired |-> 0, released |-> 0,
     begins |-> 0, commits |-> 0, rollbacks |-> 0, stmtError |-> "",
     sent |-> FALSE, sentSql |-> <<>>, sentBound |-> FALSE, sentParams |-> <<>>,
     rows |-> <<>>, affected |-> 0]

EmptyDict == [x \in {} |-> None]

NoLimit == [kind |-> "none", a |-> 0, b |-> 0]

NoPrior == [op |-> "", key |-> "", ret |-> None, wasUnset |-> FALSE]

IdleMCall ==
    [op |-> "", key |-> "", wasUnset |-> FALSE, ret |-> None, error |-> "",
     invoked |-> 0, selects |-> 0, executes |-> 0, before |-> EmptyDict,
     where |-> "", whereArgs |-> <<>>, hasArgs |-> FALSE, orderBy |-> FALSE,
     limit |-> NoLimit, pk |-> None, result |-> <<>>, prior |-> NoPrior]

-----------------------------------------------------------------------------
(* Class statements *)

\* The attribute names a class body may declare, and the declarations of a
\* field under that name: a StringField may be the primary key or not.
AttrNames == {"id", "email", "admin", "created_at"}

\* The names whose field class takes primary_key: StringField does,
\* BooleanField does not, and created_at is declared without it.
KeyAble == {"id", "email"}

\* The class bodies: the chosen names in every order, any of the key-able
\* ones declared primary_key=True, with or without __table__ = 'users' first.
Bodies ==
    UNION {
        {[i \in 1..Cardinality(S) |->
            [k |-> StrObj(order[i]),
             v |-> [UserField(order[i]) EXCEPT !.primary_key = (order[i] \in keys)]]] :
            order \in {o \in [1..Cardinality(S) -> S] :
                          \A i, j \in 1..Cardinality(S) : o[i] = o[j] => i = j},
            keys \in SUBSET (S \cap KeyAble)}
        : S \in SUBSET AttrNames}

Namespaces ==
    Bodies \cup {<<[k |-> StrObj("__table__"), v |-> StrObj("users")]>> \o b : b \in Bodies}

\* class <name>(Model): <attrs>
Declare(name, attrs) ==
    /\ declared' = [done |-> TRUE, name |-> name, attrs |-> attrs]
                   @@ ModelMetaclass_new(name, attrs)
    /\ UNCHANGED <<pool, call, klass, inst, clock, mcall>>

DeclareUser == \E attrs \in Namespaces : Declare("User", attrs)

-----------------------------------------------------------------------------
(* The store behind the driver: a MySQL table whose columns are the model  *)
(* type's, and the statements it accepts.  A statement arrives as its text *)
(* with the driver's placeholders and, when bound, its parameters.         *)

Schema(table, pk, fields) == [table |-> table, pk |-> pk, fields |-> fields]

\* select ^<pk>^, ^<col1>^, ... from ^<table>^
RefSelect(sch) ==
    <<"select", " ">>
    \o JoinText(<<",", " ">>, [i \in 1..(Len(sch.fields) + 1) |->
                                 Quoted((<<sch.pk>> \o sch.fields)[i])])
    \o <<" ", "from", " ">> \o Quoted(sch.table)

\* insert into ^<table>^ (^<col1>^, ..., ^<pk>^) value (?, ..., ?)
RefInsert(sch) ==
    <<"insert", " ", "into", " ">> \o Quoted(sch.table) \o <<" ", "(">>
    \o JoinText(<<",", " ">>, [i \in 1..(Len(sch.fields) + 1) |->
                                 Quoted((sch.fields \o <<sch.pk>>)[i])])
    \o <<")", " ", "value", " ", "(">>
    \o JoinText(<<",", " ">>, [i \in 1..(Len(sch.fields) + 1) |-> <<"?">>])
    \o <<")">>

\* update ^<table>^ set ^<col1>^=?, ... where ^<pk>^=?
RefUpdate(sch) ==
    <<"update", " ">> \o Quoted(sch.table) \o <<" ", "set", " ">>
    \o JoinText(<<",", " ">>, [i \in DOMAIN sch.fields |->
                                 Quoted(sch.fields[i]) \o <<"=", "?">>])
    \o <<" ", "where", " ">> \o Quoted(sch.pk) \o <<"=", "?">>

\* delete from ^<table>^ where ^<pk>^=?
RefDelete(sch) ==
    <<"delete", " ", "from", " ">> \o Quoted(sch.table)
    \o <<" ", "where", " ">> \o Quoted(sch.pk) \o <<"=", "?">>

\* The where fragment ^<c>^=?
WhereText(c) == Quoted(c) \o <<"=", "?">>

\* '?' and '?, ?'
LimitText(l) == IF l = 1 THEN <<"?">> ELSE <<"?", ",", " ", "?">>

\* A select with its optional clauses: w the column of the where clause or
\* "", o whether it is ordered by the primary key, l the number of limit
\* values (0 for no limit).
Clauses(sch, w, o, l) ==
    (IF w = "" THEN <<>> ELSE <<" ", "where", " ">> \o WhereText(w))
    \o (IF o THEN <<" ", "order", " ", "by", " ">> \o Quoted(sch.pk) ELSE <<>>)
    \o (IF l = 0 THEN <<>> ELSE <<" ", "limit", " ">> \o LimitText(l))

SelectForm(sch, w, o, l) == RefSelect(sch) \o Clauses(sch, w, o, l)

SelectForms(sch) ==
    {[w |-> w, o |-> o, l |-> l] :
        w \in {""} \cup {sch.pk} \cup {sch.fields[i] : i \in DOMAIN sch.fields},
        o \in BOOLEAN, l \in 0..2}

\* The forms a statement text, as the store reads it, parses as.
ParsesAsSelect(sch, wire) ==
    LET head == RefSelect(sch)
        n == Len(head)
    IN IF Len(wire) < n \/ SubSeq(wire, 1, n) # head THEN {}
       ELSE {f \in SelectForms(sch) :
                SubSeq(wire, n + 1, Len(wire)) = Translate(Clauses(sch, f.w, f.o, f.l))}

ParsesAsMutation(sch, wire) ==
    \/ wire = Translate(RefInsert(sch))
    \/ sch.fields # <<>> /\ wire = Translate(RefUpdate(sch))
    \/ wire = Translate(RefDelete(sch))

\* A value written into the statement text is a literal of SQL when it reads
\* as a number.
IsSqlLiteral(s) == \E k \in 0..9 : s = IntStr(k)

\* The rows of the table, in primary-key order.
TableRows(sch) ==
    [i \in 1..MaxRows |->
        [c \in {sch.pk} \cup {sch.fields[j] : j \in DOMAIN sch.fields} |->
            IF c = sch.pk THEN PInt(i) ELSE PInt(i % 2)]]

RECURSIVE KeepRows(_, _)
KeepRows(rows, keep) ==
    IF rows = <<>> THEN <<>>
    ELSE (IF keep[1] THEN <<rows[1]>> ELSE <<>>) \o KeepRows(Tail(rows), Tail(keep))

Clip(rows, offset, count) ==
    IF offset >= Len(rows) \/ count <= 0 THEN <<>>
    ELSE SubSeq(rows, offset + 1, IF offset + count > Len(rows) THEN Len(rows) ELSE offset + count)

\* The rows a select of form f returns for its parameters.
StoreRows(sch, f, params) ==
    LET all == TableRows(sch)
        hit == IF f.w = "" THEN all
               ELSE KeepRows(all, [i \in DOMAIN all |-> all[i][f.w] = params[1]])
        n == Len(params)
    IN IF f.l = 0 THEN hit
       ELSE IF f.l = 1 THEN Clip(hit, 0, params[n].n)
       ELSE Clip(hit, params[n - 1].n, params[n].n)

-----------------------------------------------------------------------------
(* create_pool, select, execute *)

\* What can go wrong outside the program during one call.
FaultSets ==
    {{}, {"acquire"}, {"begin"}, {"stmt"}, {"commit"}, {"rollback"},
     {"stmt", "rollback"}, {"commit", "rollback"}}

\* args or ()
ArgsOrEmpty(args) == IF args.kind = "none" THEN <<>> ELSE args.items

\* A block that hands its connection back only when it is left without an
\* exception.
LeakOnError(acquired, error) == IF error = "" THEN acquired ELSE 0

\* async with ... as conn: the connections handed back when the block is
\* left, by return or by exception, for the ones acquired on entry.
ReleaseOnExit(acquired, error) == acquired

\* async with __pool.acquire as conn: the expression is the attribute, not a
\* call of it.  NameError before create_pool; TypeError when the attribute is
\* a plain method (no asynchronous context manager protocol), as that of
\* aiomysql's Pool is; the pool's own failure when it cannot connect.
EnterPool(p, faults) ==
    IF ~p.init THEN "NameError"
    ELSE IF p.acquire = "method" THEN "TypeError(protocol)"
    ELSE IF "acquire" \in faults THEN "OperationalError"
    ELSE ""

\* select(sql, args, size) under the faults given, against a table of schema sch.
select(p, sch, sql, args, size, faults) ==
    LET base == [NoCall EXCEPT !.op = "select", !.sql = sql, !.args = args,
                               !.size = size, !.fault = faults]
        enter == EnterPool(p, faults)
        wire == Translate(sql)
        params == ArgsOrEmpty(args)
        forms == ParsesAsSelect(sch, wire)
        err == IF Count(wire, "%s") # Len(params) THEN "TypeError(format)"
               ELSE IF "stmt" \in faults \/ forms = {} THEN "StatementError"
               ELSE ""
        all == StoreRows(sch, CHOOSE f \in forms : TRUE, params)
        rs == IF size # 0 THEN Clip(all, 0, size) ELSE all
    IN IF enter # "" THEN [base EXCEPT !.error = enter]
       ELSE [base EXCEPT !.acquired = 1, !.released = ReleaseOnExit(1, err),
                         !.sent = TRUE, !.sentSql = wire, !.sentBound = TRUE,
                         !.sentParams = params, !.stmtError = err,
                         !.error = err,
                         !.rows = IF err = "" THEN rs ELSE <<>>]

\* execute(sql, args, autocommit) under the faults given; affected is the row
\* count the store reports when it runs the statement.
execute(p, sch, sql, args, autocommit, faults, affected) ==
    LET base == [NoCall EXCEPT !.op = "execute", !.sql = sql, !.args = args,
                               !.autocommit = autocommit, !.fault = faults]
        enter == EnterPool(p, faults)
        beginErr == IF ~autocommit /\ "begin" \in faults THEN "BeginError" ELSE ""
        fmtd == PyFormat(Translate(sql), args)
        wire == fmtd.text
        written == IF args.kind = "tuple"
                   THEN [i \in DOMAIN args.items |-> StrOf(args.items[i])]
                   ELSE IF Count(Translate(sql), "%s") = 1
                        THEN <<ReprList(args.items)>> ELSE <<>>
        accepted == /\ ParsesAsMutation(sch, Translate(sql))
                    /\ \A i \in DOMAIN written : IsSqlLiteral(written[i])
        stmtErr == IF ~fmtd.ok THEN "TypeError(format)"
                   ELSE IF "stmt" \in faults \/ ~accepted THEN "StatementError"
                   ELSE ""
        commitErr == IF stmtErr = "" /\ ~autocommit /\ "commit" \in faults
                     THEN "CommitError" ELSE ""
        tryErr == IF stmtErr # "" THEN stmtErr ELSE commitErr
        rollbacks == IF tryErr # "" /\ ~autocommit THEN 1 ELSE 0
        err == IF rollbacks = 1 /\ "rollback" \in faults THEN "RollbackError" ELSE tryErr
    IN IF enter # "" THEN [base EXCEPT !.error = enter]
       ELSE IF beginErr # ""
       THEN [base EXCEPT !.acquired = 1, !.released = ReleaseOnExit(1, beginErr),
                         !.begins = 1, !.error = beginErr]
       ELSE [base EXCEPT !.acquired = 1, !.released = ReleaseOnExit(1, err),
                         !.begins = IF autocommit THEN 0 ELSE 1,
                         !.commits = IF stmtErr = "" /\ ~autocommit THEN 1 ELSE 0,
                         !.rollbacks = rollbacks,
                         !.stmtError = stmtErr,
                         !.sent = fmtd.ok, !.sentSql = wire, !.sentBound = FALSE,
                         !.error = err,
                         !.affected = IF err = "" THEN affected ELSE 0]

\* The pool after a call: the connections it holds free.
PoolAfter(p, c) == [p EXCEPT !.free = p.free - c.acquired + c.released]

-----------------------------------------------------------------------------
(* Calls of the executor *)

DefaultMaxSize == 10

\* create_pool(loop, **kw): kw['db'] is required; the pool object comes from
\* the driver, and what its acquire attribute is depends on that object.
create_pool(hasDb, acquire) ==
    /\ IF hasDb
       THEN /\ pool' = [init |-> TRUE, acquire |-> acquire,
                        maxsize |-> DefaultMaxSize, free |-> DefaultMaxSize]
            /\ call' = [NoCall EXCEPT !.op = "create_pool"]
       ELSE /\ pool' = pool
            /\ call' = [NoCall EXCEPT !.op = "create_pool", !.error = "KeyError"]
    /\ mcall' = IdleMCall
    /\ UNCHANGED <<declared, klass, inst, clock>>

CreatePool ==
    \E hasDb \in BOOLEAN, acquire \in {"method", "context manager"} :
        create_pool(hasDb, acquire)

\* The table the callers of select and execute address.
Users == Schema("users", "id", <<"email">>)

CallerSql ==
    {RefDelete(Users), RefUpdate(Users),
     SelectForm(Users, "id", FALSE, 0), SelectForm(Users, "", FALSE, 1)}

CallerItems == {<<>>, <<PInt(1)>>, <<PStr("x")>>, <<PStr("x"), PInt(1)>>}

CallerArgs == {[kind |-> k, items |-> it] : k \in {"list", "tuple"}, it \in CallerItems}

\* A call suspends in acquire while the pool has no free connection.
CanEnter == (pool.init /\ pool.acquire = "context manager") => pool.free > 0

Select ==
    \E sql \in CallerSql, args \in CallerArgs \cup {[kind |-> "none", items |-> <<>>]},
       size \in 0..1, faults \in {{}, {"acquire"}, {"stmt"}} :
        /\ CanEnter
        /\ call' = select(pool, Users, sql, args, size, faults)
        /\ pool' = PoolAfter(pool, call')
        /\ mcall' = IdleMCall
        /\ UNCHANGED <<declared, klass, inst, clock>>

Execute ==
    \E sql \in CallerSql, args \in CallerArgs, autocommit \in BOOLEAN,
       faults \in FaultSets :
        /\ CanEnter
        /\ call' = execute(pool, Users, sql, args, autocommit, faults, 1)
        /\ pool' = PoolAfter(pool, call')
        /\ mcall' = IdleMCall
        /\ UNCHANGED <<declared, klass, inst, clock>>

-----------------------------------------------------------------------------
(* Model: instances, getValueOrDefault, save, find, findAll *)

\* A dict with key k set to v.
Put(d, k, v) == [x \in (DOMAIN d) \cup {k} |-> IF x = k THEN v ELSE d[x]]

\* self.__mappings__[key], for a key it holds
MappingOf(cls, key) ==
    cls.mappings[CHOOSE i \in DOMAIN cls.mappings : cls.mappings[i].k = key].v

HasMapping(cls, key) == \E i \in DOMAIN cls.mappings : cls.mappings[i].k = key

\* What the n-th invocation of a callable default returns: next_id and
\* time.time give a new value each time.
Fresh(f, n) == PStr(f \o "#" \o IntStr(n))

\* getValueOrDefault(self, key) on the dict d with the defaults invoked clk
\* times so far: the value returned, the dict and the count afterwards.
getValueOrDefault(cls, d, key, clk) ==
    LET value == IF key \in DOMAIN d THEN d[key] ELSE None
        out == [ret |-> value, inst |-> d, clock |-> clk, error |-> ""]
    IN IF value # None THEN out
       ELSE IF ~HasMapping(cls, key) THEN [out EXCEPT !.error = "KeyError"]
       ELSE LET default == MappingOf(cls, key).default IN
            IF default = None THEN out
            ELSE IF default.t = "func"
            THEN [out EXCEPT !.ret = Fresh(default.s, clk),
                             !.inst = Put(d, key, Fresh(default.s, clk)),
                             !.clock = clk + 1]
            ELSE [out EXCEPT !.ret = default, !.inst = Put(d, key, default)]

\* list(map(self.getValueOrDefault, keys)), left to right
RECURSIVE MapDefaults(_, _, _)
MapDefaults(cls, keys, st) ==
    IF keys = <<>> THEN st
    ELSE LET g == getValueOrDefault(cls, st.inst, keys[1], st.clock) IN
         MapDefaults(cls, Tail(keys),
                     [inst |-> g.inst, clock |-> g.clock,
                      vals |-> Append(st.vals, g.ret)])

\* The argument list with the primary key's value first.
KeyFirstArgs(cls, d, clk) ==
    MapDefaults(cls, <<cls.primary_key>> \o cls.fields,
                [inst |-> d, clock |-> clk, vals |-> <<>>])

\* save, lines 286-287: the values of __fields__ in order, then the primary
\* key's, each through getValueOrDefault.
SaveArgs(cls, d, clk) ==
    MapDefaults(cls, cls.fields \o <<cls.primary_key>>,
                [inst |-> d, clock |-> clk, vals |-> <<>>])

\* The table a model type is stored in.
SchemaOf(cls) == Schema(cls.table, cls.primary_key, cls.fields)

\* What a call of getValueOrDefault keeps of the call before it.
Prior ==
    IF mcall.op = "getValueOrDefault"
    THEN [op |-> mcall.op, key |-> mcall.key, ret |-> mcall.ret, wasUnset |-> mcall.wasUnset]
    ELSE NoPrior

\* The scan's result for a class body that declares id as the primary key
\* and then the given fields, and the attributes built from it.
ClassOf(fields) ==
    BuildAttrs("users", StrObj("id"), [i \in DOMAIN fields |-> StrObj(fields[i])],
               [i \in 1..(Len(fields) + 1) |->
                   [k |-> StrObj((<<"id">> \o fields)[i]),
                    v |-> UserField((<<"id">> \o fields)[i])]])

DeclaredFields == <<"email", "admin", "created_at">>

Classes == {ClassOf(SubSeq(DeclaredFields, 1, n)) : n \in 0..MaxFields}

\* A value given explicitly for a column.
Given(k) ==
    CASE k = "id" -> PInt(1)
      [] k = "admin" -> PBool(TRUE)
      [] OTHER -> PInt(1)

\* cls(**kw)
New ==
    \E keys \in SUBSET ({klass.primary_key} \cup {klass.fields[i] : i \in DOMAIN klass.fields}) :
        /\ inst' = [k \in keys |-> Given(k)]
        /\ mcall' = [IdleMCall EXCEPT !.op = "new"]
        /\ call' = NoCall
        /\ UNCHANGED <<declared, pool, klass, clock>>

GetValueOrDefault ==
    \E key \in {klass.primary_key} \cup {klass.fields[i] : i \in DOMAIN klass.fields} :
        LET g == getValueOrDefault(klass, inst, key, clock) IN
        /\ g.clock <= MaxClock
        /\ inst' = g.inst
        /\ clock' = g.clock
        /\ mcall' = [IdleMCall EXCEPT !.op = "getValueOrDefault", !.key = key,
                                      !.wasUnset = (key \notin DOMAIN inst),
                                      !.ret = g.ret, !.error = g.error,
                                      !.invoked = g.clock - clock,
                                      !.prior = Prior]
        /\ call' = NoCall
        /\ UNCHANGED <<declared, pool, klass>>

\* save(self)
Save ==
    LET st == SaveArgs(klass, inst, clock)
        c == execute(pool, SchemaOf(klass), klass.insert,
                     [kind |-> "list", items |-> st.vals], TRUE, {}, 1)
    IN /\ CanEnter
       /\ st.clock <= MaxClock
       /\ inst' = st.inst
       /\ clock' = st.clock
       /\ call' = c
       /\ pool' = PoolAfter(pool, c)
       /\ mcall' = [IdleMCall EXCEPT !.op = "save", !.error = c.error,
                                     !.invoked = st.clock - clock,
                                     !.executes = 1, !.before = inst]
       /\ UNCHANGED <<declared, klass>>

\* find(cls, pk): the statement text is formatted from two specifiers and a
\* tuple of four values, and select would be called with that text alone.
Find ==
    \E pk \in {PInt(k) : k \in 1..(MaxRows + 1)} :
        LET f == PyFormat(<<"%s", " ", "where", " ", "^", "%s", "^", "=", "?">>,
                          [kind |-> "tuple",
                           items |-> <<PStr(Str(klass.select)), PStr(klass.primary_key),
                                       PStr(ReprList(<<pk>>)), PInt(1)>>])
        IN /\ mcall' = [IdleMCall EXCEPT !.op = "find", !.pk = pk,
                                         !.error = IF f.ok THEN "TypeError(arguments)"
                                                   ELSE "TypeError(format)"]
           /\ call' = NoCall
           /\ UNCHANGED <<declared, pool, klass, inst, clock>>

Limits ==
    {NoLimit, [kind |-> "other", a |-> 0, b |-> 0]}
    \cup {[kind |-> "int", a |-> n, b |-> 0] : n \in 0..MaxLimit}
    \cup {[kind |-> "pair", a |-> o, b |-> n] : o \in 0..MaxLimit, n \in 0..MaxLimit}

\* The statement and the arguments findAll passes to select, or "" for the
\* statement when it raises ValueError.
findAll(cls, where, args, hasArgs, orderBy, limit) ==
    LET sql1 == <<cls.select>>
                \o (IF where # "" THEN <<<<"where">>, WhereText(where)>> ELSE <<>>)
        args1 == IF hasArgs THEN args ELSE <<>>
        sql2 == sql1 \o (IF orderBy THEN <<<<"order", " ", "by">>, Quoted(cls.primary_key)>>
                         ELSE <<>>)
    IN CASE limit.kind = "none" ->
              [error |-> "", sql |-> JoinText(<<" ">>, sql2), args |-> args1]
         [] limit.kind = "int" ->
              [error |-> "",
               sql |-> JoinText(<<" ">>, sql2 \o <<<<"limit">>, <<"?">>>>),
               args |-> Append(args1, PInt(limit.a))]
         [] limit.kind = "pair" ->
              [error |-> "",
               sql |-> JoinText(<<" ">>, sql2 \o <<<<"limit">>, <<"?", ",", " ", "?">>>>),
               args |-> args1 \o <<PInt(limit.a), PInt(limit.b)>>]
         [] OTHER -> [error |-> "ValueError", sql |-> <<>>, args |-> args1]

FindAll ==
    \E where \in {"", "email"}, hasArgs \in BOOLEAN, orderBy \in BOOLEAN,
       limit \in Limits :
        LET args == <<PInt(1)>>
            q == findAll(klass, where, args, hasArgs, orderBy, limit)
            c == select(pool, SchemaOf(klass), q.sql, [kind |-> "list", items |-> q.args],
                        0, {})
            m == [IdleMCall EXCEPT !.op = "findAll", !.where = where,
                                   !.whereArgs = IF hasArgs THEN args ELSE <<>>,
                                   !.hasArgs = hasArgs, !.orderBy = orderBy,
                                   !.limit = limit]
        IN /\ CanEnter
           /\ IF q.error # ""
              THEN /\ mcall' = [m EXCEPT !.error = q.error]
                   /\ call' = NoCall
                   /\ pool' = pool
              ELSE /\ call' = c
                   /\ pool' = PoolAfter(pool, c)
                   /\ mcall' = [m EXCEPT !.error = c.error, !.selects = 1,
                                         !.result = c.rows]
           /\ UNCHANGED <<declared, klass, inst, clock>>

-----------------------------------------------------------------------------
(* Specifications *)

Init ==
    /\ declared = NoDecl
    /\ pool = NoPool
    /\ call = NoCall
    /\ klass = NoAttrs
    /\ inst = EmptyDict
    /\ clock = 0
    /\ mcall = IdleMCall

\* Class statements run through the metaclass.
NextSchema == Declare("Model", <<>>) \/ DeclareUser

SpecSchema == Init /\ [][NextSchema]_vars

\* Calls of create_pool, select and execute.
NextExec == CreatePool \/ Select \/ Execute

SpecExec == Init /\ [][NextExec]_vars

\* Calls on a model type and one instance of it, over a pool.
InitModel ==
    /\ declared = NoDecl
    /\ pool = NoPool
    /\ call = NoCall
    /\ klass \in Classes
    /\ inst = EmptyDict
    /\ clock = 0
    /\ mcall = IdleMCall

PoolForModel ==
    /\ ~pool.init
    /\ \E acquire \in {"method", "context manager"} : create_pool(TRUE, acquire)

NextModel == PoolForModel \/ New \/ GetValueOrDefault \/ Save

SpecModel == InitModel /\ [][NextModel]_vars

\* Calls of the finders of a model type, over a pool.
NextFinders == PoolForModel \/ Find \/ FindAll

SpecFinders == InitModel /\ [][NextFinders]_vars

-----------------------------------------------------------------------------
(* Claims *)

\* C1: every model type declared with exactly one primary-key field is
\* created, and its select, insert, update and delete templates hold exactly
\* the declared columns in declaration order, the primary key only in the
\* WHERE clause of update.
C1_TemplatesOfOneKeyTypes ==
    LET attrs == declared.attrs
        IsKey(a) == IsField(a.v) /\ a.v.primary_key
        IsPlain(a) == IsField(a.v) /\ ~a.v.primary_key
        keys == SelectSeq(attrs, IsKey)
        plain == SelectSeq(attrs, IsPlain)
        sch == Schema(TableName(declared.name, attrs), keys[1].k.str,
                      [i \in DOMAIN plain |-> plain[i].k.str])
    IN (declared.done /\ declared.name # "Model" /\ Len(keys) = 1)
       => /\ declared.created
          /\ declared.meta.select = RefSelect(sch)
          /\ declared.meta.insert = RefInsert(sch)
          /\ declared.meta.update = RefUpdate(sch)
          /\ declared.meta.delete = RefDelete(sch)

\* C2: a declaration with no primary-key field fails with the
\* missing-primary-key error and one with more than one fails with the
\* duplicate-primary-key error; no type is created, and the outcome depends
\* only on the fields declared, not on their order.
C2_KeyErrors ==
    LET IsKey(a) == IsField(a.v) /\ a.v.primary_key
        keys == SelectSeq(declared.attrs, IsKey)
    IN (declared.done /\ declared.name # "Model")
       => /\ Len(keys) = 0 => (~declared.created
                               /\ declared.error = "Primary key not found.")
          /\ Len(keys) > 1
             => (/\ ~declared.created
                 /\ \E i \in DOMAIN keys :
                       declared.error = "Duplicate primary key for field: " \o keys[i].k.str)

\* C3: when execute runs with autocommit false and the statement fails,
\* rollback is called exactly once, commit is never called, and the caller
\* gets the statement's own error.  (Stated for calls whose arguments match
\* the placeholders and whose statement the driver fails.)
C3_RollbackKeepsError ==
    (/\ call.op = "execute" /\ ~call.autocommit
     /\ call.args.kind = "tuple" /\ Count(call.sql, "?") = Len(call.args.items)
     /\ "stmt" \in call.fault /\ call.stmtError = "StatementError")
    => /\ call.rollbacks = 1
       /\ call.commits = 0
       /\ call.error = call.stmtError

C5_FindByKey ==
    (mcall.op = "find" /\ pool.init /\ pool.acquire = "context manager")
    => /\ mcall.error = ""
       /\ mcall.selects = 1
       /\ call.op = "select"
       /\ call.sentParams = <<mcall.pk>>
       /\ IF mcall.pk.n <= MaxRows
          THEN Len(mcall.result) = 1 /\ mcall.result[1][klass.primary_key] = mcall.pk
          ELSE mcall.result = <<>>

\* C6: findAll with limit n returns the first n matching rows (all of them
\* when fewer match), with limit (offset, count) the rows offset ..
\* offset+count-1 of the store's order; the limit values are bound after the
\* where arguments, as many arguments as placeholders; any other limit
\* raises ValueError before a query is issued.
C6_FindAllLimit ==
    LET sch == SchemaOf(klass)
        all == TableRows(sch)
        hit == IF mcall.where = "" THEN all
               ELSE KeepRows(all, [i \in DOMAIN all |->
                                      all[i][mcall.where] = mcall.whereArgs[1]])
        lim == mcall.limit
        items == call.args.items
        n == Len(items)
    IN (/\ mcall.op = "findAll"
        /\ mcall.limit.kind # "none"
        /\ pool.init /\ pool.acquire = "context manager"
        /\ (mcall.where = "") = (mcall.whereArgs = <<>>))
       => CASE lim.kind = "other" ->
                 mcall.error = "ValueError" /\ mcall.selects = 0 /\ call.op = ""
            [] lim.kind = "int" ->
                 /\ mcall.error = ""
                 /\ Count(call.sql, "?") = n
                 /\ items = mcall.whereArgs \o <<PInt(lim.a)>>
                 /\ mcall.result = Clip(hit, 0, lim.a)
            [] lim.kind = "pair" ->
                 /\ mcall.error = ""
                 /\ Count(call.sql, "?") = n
                 /\ items = mcall.whereArgs \o <<PInt(lim.a), PInt(lim.b)>>
                 /\ mcall.result = Clip(hit, lim.a, lim.b)

\* C7: on an instance with no value set for a field, the first
\* getValueOrDefault(key) resolves the field's default and writes it onto
\* the instance; a second getValueOrDefault(key) returns that same stored
\* value and invokes no default.
C7_DefaultCached ==
    (mcall.op = "getValueOrDefault" /\ mcall.error = "")
    => /\ mcall.wasUnset
          => (mcall.key \in DOMAIN inst /\ inst[mcall.key] = mcall.ret)
       /\ (mcall.prior.op = "getValueOrDefault" /\ mcall.prior.key = mcall.key
           /\ mcall.prior.wasUnset)
          => (mcall.ret = mcall.prior.ret /\ mcall.invoked = 0)

\* C8: execute called with a number of arguments other than the number of
\* placeholders raises the argument-mismatch error before any connection is
\* acquired: none is acquired, no transaction begun, no statement sent.
C8_MismatchBeforeAcquire ==
    (/\ call.op = "execute"
     /\ pool.init /\ pool.acquire = "context manager"
     /\ Count(call.sql, "?") # Len(call.args.items))
    => /\ call.error = "TypeError(format)"
       /\ call.acquired = 0
       /\ call.begins = 0
       /\ ~call.sent

\* C9: every connection select or execute acquires is back in the pool when
\* the call ends, whichever way it ends; after any sequence of calls no
\* connection is checked out.
C9_ConnectionsReleased ==
    /\ call.released = call.acquired
    /\ pool.init => pool.free = pool.maxsize

\* An execute that acquired a connection and ended with the rollback failing
\* after the statement failed.
C9_Witness ==
    /\ call.op = "execute"
    /\ call.acquired = 1
    /\ call.stmtError = "StatementError"
    /\ call.error = "RollbackError"
    /\ pool.free = pool.maxsize

\* C10: execute hands the argument values to the driver only as bound
\* parameters: the text sent is the template with each ? replaced by the
\* driver's placeholder, whatever the values, and the values go separately.
C10_BoundParameters ==
    (call.op = "execute" /\ call.sent /\ Count(call.sql, "?") = Len(call.args.items))
    => /\ call.sentSql = Translate(call.sql)
       /\ call.sentBound
       /\ call.sentParams = call.args.items

=============================================================================
